---- MODULE Spec2Model ----
(***************************************************************************)
(* Model of tools/cmd/genjwk/main.go: the generator of the jwk key types   *)
(* and the runtime object (struct, Get/Set/Remove, JSON codec) that        *)
(* generateObject emits for one variant of one KeyType group.              *)
(*                                                                         *)
(* The schema (objects.yml) is an input of the generator.  The model       *)
(* fixes one KeyType group with one object whose fields exercise every     *)
(* branch of generateObject: the two fields with bespoke Set code          *)
(* (algorithm, keyUsage), a plain string field, a hasAccept field, a       *)
(* required []byte field of the family, and a pointer field with hasGet.   *)
(***************************************************************************)
EXTENDS Integers, Sequences, FiniteSets, TLC

\* h, last: one runtime object and the last call on it.
\* mu, pc, locals: the object's lock and the goroutines calling its methods.
\* it: the iteration started by Iterate (context, producer, channel).
\* gen: a run of the generator over a KeyType group.
\* hist: history of the object's states between mutations (not in the code).
VARIABLES h, last, mu, pc, locals, it, gen, hist

vars == <<h, last, mu, pc, locals, it, gen, hist>>

(***************************************************************************)
(* Bounds of the model.                                                    *)
(***************************************************************************)
\* Largest number of members (key/value pairs) of a decoded payload.
MaxMembers == 2

(***************************************************************************)
(* The schema: KeyType group and the organized field list of its object.   *)
(***************************************************************************)
KeyType == [Prefix |-> "RSA", KeyType |-> "RSA"]

Field(name, exported, json, type, isStd, required, hasAccept, hasGet) ==
    [name |-> name, exported |-> exported, json |-> json, type |-> type,
     is_std |-> isStd, required |-> required,
     hasAccept |-> hasAccept, hasGet |-> hasGet]

\* obj.Fields() after AddField of the standard fields and Organize().
Fields ==
    << Field("algorithm", "Algorithm", "alg", "jwa.KeyAlgorithm", TRUE, FALSE, FALSE, FALSE),
       Field("keyID", "KeyID", "kid", "string", TRUE, FALSE, FALSE, FALSE),
       Field("keyOps", "KeyOps", "key_ops", "KeyOperationList", TRUE, FALSE, TRUE, FALSE),
       Field("keyUsage", "KeyUsage", "use", "string", TRUE, FALSE, FALSE, FALSE),
       Field("n", "N", "n", "[]byte", FALSE, TRUE, FALSE, FALSE),
       Field("x509CertChain", "X509CertChain", "x5c", "*cert.Chain", TRUE, FALSE, FALSE, TRUE) >>

FieldIdx == 1..Len(Fields)

FieldNames == { Fields[i].name : i \in FieldIdx }

(***************************************************************************)
(* Generator helpers.                                                      *)
(***************************************************************************)
HasPrefix(s, p) == Len(s) >= Len(p) /\ SubSeq(s, 1, Len(p)) = p

HasSuffix(s, p) == Len(s) >= Len(p) /\ SubSeq(s, Len(s) - Len(p) + 1, Len(s)) = p

IsPointer(f) == HasPrefix(f.type, "*")

PointerElem(f) == IF HasPrefix(f.type, "*") THEN SubSeq(f.type, 2, Len(f.type)) ELSE f.type

\* The rule with no exception for KeyOperationList.
fieldStorageTypeIsIndirectNoException(s) ==
    ~(HasPrefix(s, "*") \/ HasPrefix(s, "[]") \/ HasSuffix(s, "List"))

fieldStorageTypeIsIndirect(s) ==
    s = "KeyOperationList" \/ ~(HasPrefix(s, "*") \/ HasPrefix(s, "[]") \/ HasSuffix(s, "List"))

fieldStorageType(s) == IF fieldStorageTypeIsIndirect(s) THEN "*" \o s ELSE s

(***************************************************************************)
(* Key constants.  GenericConstants is the const block of                  *)
(* generateGenericHeaders, GroupConstants the one of generateKeyType; a    *)
(* constant is a pair <<name, value>>.                                     *)
(***************************************************************************)
GenericConstants ==
    { <<"KeyTypeKey", "kty">> } \cup
    { <<Fields[i].exported \o "Key", Fields[i].json>> : i \in { j \in FieldIdx : Fields[j].is_std } }

GroupConstants ==
    { <<KeyType.Prefix \o Fields[i].exported \o "Key", Fields[i].json>> :
          i \in { j \in FieldIdx : ~Fields[j].is_std } }

Constants == GenericConstants \cup GroupConstants

\* The value of the Go constant called name.
ConstValue(name) == (CHOOSE c \in Constants : c[1] = name)[2]

\* The constant makePairs, Get, setNoLock and Remove use for field f.
keyName(f) ==
    IF f.is_std THEN f.exported \o "Key" ELSE KeyType.Prefix \o f.exported \o "Key"

\* The constant the UnmarshalJSON switch uses for field f.
decodeKeyName(f) ==
    IF f.type = "string" THEN f.exported \o "Key"
    ELSE IF f.type = "jwa.KeyAlgorithm" THEN f.exported \o "Key"
    ELSE IF f.type = "[]byte" THEN
        IF f.name \in {"n", "e", "d", "p", "dp", "dq", "x", "y", "q", "qi", "octets"}
        THEN KeyType.Prefix \o f.exported \o "Key"
        ELSE f.exported \o "Key"
    ELSE IF f.name = "crv" THEN KeyType.Prefix \o f.exported \o "Key"
    ELSE f.exported \o "Key"

KeyTypeKey == ConstValue("KeyTypeKey")

\* The case label of field i in the Get/Set/Remove switches and in makePairs.
caseKey == [i \in FieldIdx |-> ConstValue(keyName(Fields[i]))]

\* The case label of field i in the UnmarshalJSON switch.
decodeCaseKey == [i \in FieldIdx |-> ConstValue(decodeKeyName(Fields[i]))]

\* Whether the slot of field i is a box (*T) around the field's type.
indirect == [i \in FieldIdx |-> fieldStorageTypeIsIndirect(Fields[i].type)]

\* Wire keys of the static fields, by the constant of the Get/Set/Remove switch.
StaticKeys == { caseKey[i] : i \in FieldIdx }

\* Keys with no static field (private parameters).
ExtKeys == {"bar", "zzz"}

Keys == {KeyTypeKey} \cup StaticKeys \cup ExtKeys

\* The field a Get/Set/Remove switch selects for key k (0: the default case).
FieldOfKeyMissingCase(k) ==
    IF \E i \in FieldIdx : caseKey[i] = k /\ i # Len(Fields)
    THEN CHOOSE i \in FieldIdx : caseKey[i] = k
    ELSE 0

FieldOfKey(k) ==
    IF \E i \in FieldIdx : caseKey[i] = k
    THEN CHOOSE i \in FieldIdx : caseKey[i] = k
    ELSE 0

\* The field the UnmarshalJSON switch selects for key k (0: the default case).
DecodeFieldOfKey(k) ==
    IF \E i \in FieldIdx : decodeCaseKey[i] = k
    THEN CHOOSE i \in FieldIdx : decodeCaseKey[i] = k
    ELSE 0

(***************************************************************************)
(* Go values: a dynamic type t and a payload v.  NilMark as payload is the *)
(* nil value of a slice or pointer type.  NIL is an empty slot.            *)
(***************************************************************************)
NilMark == "<nil>"

Val(t, v) == [t |-> t, v |-> v]

NIL == Val("nil", NilMark)

IsNilValue(x) == x.v = NilMark

\* kt.KeyType, the value KeyType() returns.
KeyTypeValue == Val("jwa.KeyType", KeyType.KeyType)

\* The usage values ForSignature and ForEncryption.
ForSignature == Val("KeyUsageType", "sig")

ForEncryption == Val("KeyUsageType", "enc")

(***************************************************************************)
(* Collaborators of the emitted code that live outside main.go (package    *)
(* jwa, KeyOperationList, cert.Chain, the json helpers and registries).    *)
(***************************************************************************)
\* jwa.KeyAlgorithmFrom: normalizes to the single identifier kind.
KeyAlgorithmFrom(x) == Val("jwa.KeyAlgorithm", x.v)

\* Dynamic types with a String() method (fmt.Stringer).
IsStringer(x) == x.t \in {"KeyUsageType", "jwa.SignatureAlgorithm", "jwa.KeyType"}

\* v.String().
String(x) == Val("string", x.v)

\* acceptor.Accept(value) for a field of type T: TRUE when it returns nil.
AcceptOK(T, x) == x.t \in {"string", T} /\ ~IsNilValue(x)

\* The acceptor after a successful Accept(value).
Accepted(T, x) == Val(T, x.v)

\* x.Get() of a hasGet type: the default-extraction operation.
GetDefault(x) == Val("[]string", x.v)

(***************************************************************************)
(* The runtime object: the struct emitted by generateObject.               *)
(***************************************************************************)
EmptyMap == [k \in {} |-> NIL]

\* newXXX(): the constructor.
NewObject ==
    [slots |-> [n \in FieldNames |-> NIL], privateParams |-> EmptyMap, dc |-> "nil"]

MapSet(m, k, x) == [j \in DOMAIN m \cup {k} |-> IF j = k THEN x ELSE m[j]]

MapDelete(m, k) == [j \in DOMAIN m \ {k} |-> m[j]]

\* What a slot holds after the assignment h.f = &v (indirect) or h.f = v.
Stored(i, x) ==
    IF indirect[i] THEN x
    ELSE IF IsNilValue(x) THEN NIL ELSE x

Result(o, err, ekey) == [h |-> o, err |-> err, ekey |-> ekey]

\* Get(name) with every non-empty slot returned as it is stored.
GetPlainDereference(o, name) ==
    IF name = KeyTypeKey THEN <<KeyTypeValue, TRUE>>
    ELSE IF FieldOfKey(name) # 0 THEN
        LET f == Fields[FieldOfKey(name)] IN
        IF o.slots[f.name] = NIL THEN <<NIL, FALSE>> ELSE <<o.slots[f.name], TRUE>>
    ELSE IF name \in DOMAIN o.privateParams THEN <<o.privateParams[name], TRUE>>
    ELSE <<NIL, FALSE>>

\* Get(name): <<value, found>>.
Get(o, name) ==
    IF name = KeyTypeKey THEN <<KeyTypeValue, TRUE>>
    ELSE IF FieldOfKey(name) # 0 THEN
        LET f == Fields[FieldOfKey(name)] IN
        IF o.slots[f.name] = NIL THEN <<NIL, FALSE>>
        ELSE IF f.hasGet THEN <<GetDefault(o.slots[f.name]), TRUE>>
        ELSE <<o.slots[f.name], TRUE>>
    ELSE IF name \in DOMAIN o.privateParams THEN <<o.privateParams[name], TRUE>>
    ELSE <<NIL, FALSE>>

\* The error return of a static case of setNoLock: nothing was assigned.
typeErrorAssigns(o, i) == Result([o EXCEPT !.slots[Fields[i].name] = NIL], "type", caseKey[i])

typeError(o, i) == Result(o, "type", caseKey[i])

\* case "kty" of setNoLock.
setKtyFallsThrough(o, name, value) ==
    Result([o EXCEPT !.privateParams = MapSet(@, name, value)], "", "")

setKty(o, name, value) == Result(o, "", "")

\* The case of setNoLock for field i.
setField(o, i, value) ==
    LET f == Fields[i]
        set(x) == Result([o EXCEPT !.slots[f.name] = x], "", "")
    IN  IF f.name = "algorithm" THEN
            IF value.t \in {"string", "jwa.SignatureAlgorithm", "jwa.ContentEncryptionAlgorithm"}
            THEN set(KeyAlgorithmFrom(value))
            ELSE IF IsStringer(value) THEN set(KeyAlgorithmFrom(String(value)))
            ELSE typeError(o, i)
        ELSE IF f.name = "keyUsage" THEN
            IF value.t = "KeyUsageType" THEN
                IF value \in {ForSignature, ForEncryption} THEN set(String(value))
                ELSE typeError(o, i)
            ELSE IF value.t = "string" THEN set(value)
            ELSE typeError(o, i)
        ELSE IF f.hasAccept THEN
            IF AcceptOK(f.type, value) THEN set(Stored(i, Accepted(f.type, value)))
            ELSE typeError(o, i)
        ELSE IF value.t = f.type THEN set(Stored(i, value))
        ELSE typeError(o, i)

\* The default case of setNoLock.
setPrivateDropped(o, name, value) == Result(o, "", "")

setPrivate(o, name, value) ==
    Result([o EXCEPT !.privateParams = MapSet(@, name, value)], "", "")

\* setNoLock(name, value): the object afterwards and the error returned.
setNoLock(o, name, value) ==
    IF name = "kty" THEN setKty(o, name, value)
    ELSE IF FieldOfKey(name) # 0 THEN setField(o, FieldOfKey(name), value)
    ELSE setPrivate(o, name, value)

\* Remove(key): the object afterwards (the error returned is always nil).
RemoveKeyClearsMap(o, key) ==
    IF FieldOfKey(key) # 0
    THEN [o EXCEPT !.slots[Fields[FieldOfKey(key)].name] = NIL]
    ELSE [o EXCEPT !.privateParams = EmptyMap]

RemoveKey(o, key) ==
    IF FieldOfKey(key) # 0
    THEN [o EXCEPT !.slots[Fields[FieldOfKey(key)].name] = NIL]
    ELSE [o EXCEPT !.privateParams = MapDelete(@, key)]

(***************************************************************************)
(* JSON.  A token stream is a sequence of tokens; a value (string, number  *)
(* or array) is one token, as dec.Decode consumes a whole value.           *)
(***************************************************************************)
Tok(kind, v) == [kind |-> kind, v |-> v]

\* base64.EncodeToString.
Base64Encode(b) == IF b = "\\x01" THEN "AQ" ELSE "????"

\* base64.DecodeString succeeds on s.
Base64Valid(s) == s = "AQ"

Base64Decode(s) == "\\x01"

\* The generic value encoder (enc.Encode) succeeds on x.
Encodable(x) == x.t \notin {"func", "chan"}

\* What the generic value encoder writes for x.
EncodeValue(x) ==
    IF x.t \in {"int", "float64"} THEN Tok("number", x.v)
    ELSE IF x.t \in {"KeyOperationList", "*cert.Chain", "[]string", "[]interface{}"}
    THEN Tok("array", x.v)
    ELSE IF x.t = "[]byte" THEN Tok("string", Base64Encode(x.v) \o "==")
    ELSE Tok("string", x.v)

\* Decoding the token tk into a Go value of type T: <<ok, value>>.
\* (json.AssignNextStringToken, json.AssignNextBytesToken, dec.Decode.)
DecodeValue(T, tk) ==
    IF T = "string" THEN
        IF tk.kind = "string" THEN <<TRUE, Val("string", tk.v)>> ELSE <<FALSE, NIL>>
    ELSE IF T = "[]byte" THEN
        IF tk.kind = "string" /\ Base64Valid(tk.v)
        THEN <<TRUE, Val("[]byte", Base64Decode(tk.v))>> ELSE <<FALSE, NIL>>
    ELSE IF T \in {"int", "float64"} THEN
        IF tk.kind = "number" THEN <<TRUE, Val(T, tk.v)>> ELSE <<FALSE, NIL>>
    ELSE IF T = "interface{}" THEN
        IF tk.kind = "string" THEN <<TRUE, Val("string", tk.v)>>
        ELSE IF tk.kind = "number" THEN <<TRUE, Val("float64", tk.v)>>
        ELSE IF tk.kind = "array" THEN <<TRUE, Val("[]interface{}", tk.v)>>
        ELSE <<FALSE, NIL>>
    ELSE IF tk.kind = "array" THEN <<TRUE, Val(T, tk.v)>> ELSE <<FALSE, NIL>>

\* A registry: the Go type registered for a key; a key that is not
\* registered is decoded as interface{}.
GlobalRegistry == [k \in {"zzz"} |-> "string"]

LocalRegistry == [k \in {"zzz", "bar"} |-> "int"]

\* reg.Decode(dec, key) with the stream at the value tk: <<ok, value>>.
RegistryDecode(reg, key, tk) ==
    DecodeValue(IF key \in DOMAIN reg THEN reg[key] ELSE "interface{}", tk)

\* The decode contexts: none, one whose Registry() is nil, one with LocalRegistry.
DecodeCtxs == {"nil", "noRegistry", "localRegistry"}

(***************************************************************************)
(* UnmarshalJSON.                                                          *)
(***************************************************************************)
\* The checks after the loop: the first required field that is empty.
requiredCheck(o) ==
    LET missing == { i \in FieldIdx : Fields[i].required /\ o.slots[Fields[i].name] = NIL } IN
    IF missing = {} THEN Result(o, "", "")
    ELSE Result(o, "required",
                Fields[CHOOSE i \in missing : \A j \in missing : i <= j].json)

\* The default case with the global registry consulted first.
decodeExtensionGlobalFirst(o, key, tk) ==
    LET glob == RegistryDecode(GlobalRegistry, key, tk) IN
    IF glob[1] \/ o.dc # "localRegistry" THEN glob
    ELSE RegistryDecode(LocalRegistry, key, tk)

\* The default case of the key switch: the value the registries produce.
\* <<ok, value>>.
decodeExtension(o, key, tk) ==
    LET loc == RegistryDecode(LocalRegistry, key, tk) IN
    IF o.dc = "localRegistry" /\ loc[1] THEN loc
    ELSE RegistryDecode(GlobalRegistry, key, tk)

\* The Go type the case of field f decodes the next value into.
decodedType(f) ==
    IF f.type \in {"string", "[]byte"} THEN f.type
    ELSE IF f.type = "jwa.KeyAlgorithm" THEN "string"
    ELSE PointerElem(f)

\* The comparison of the kty value with kt.KeyType.String().
ktyUnchecked(val) == TRUE

ktyMatches(val) == val = KeyTypeValue.v

\* The outcome of one iteration of the token loop: next is the position of
\* the next iteration, 0 when the function returns.
Step(o, err, ekey, next) == [h |-> o, err |-> err, ekey |-> ekey, next |-> next]

\* h.setNoLock(tok, decoded) of the default case: the error is dropped.
storeDecoded(o, key, value) == setNoLock(o, key, value).h

\* One iteration of the token loop at position i (the checks after the loop
\* when the token is the closing delimiter).
decodeStep(o, toks, i) ==
    IF i > Len(toks) THEN Step(o, "token", "", 0)
    ELSE LET tok == toks[i] IN
    IF tok.kind = "delim" THEN
        IF tok.v = "}" THEN
            LET r == requiredCheck(o) IN Step(r.h, r.err, r.ekey, 0)
        ELSE IF tok.v # "{" THEN Step(o, "delim", "", 0)
        ELSE Step(o, "", "", i + 1)
    ELSE IF tok.kind # "string" THEN Step(o, "invalid token", "", 0)
    ELSE LET tk == IF i + 1 > Len(toks) THEN Tok("eof", "") ELSE toks[i + 1] IN
    IF tok.v = KeyTypeKey THEN
        IF tk.kind # "string" THEN Step(o, "token", "", 0)
        ELSE IF ~ktyMatches(tk.v) THEN Step(o, "kty", "", 0)
        ELSE Step(o, "", "", i + 2)
    ELSE IF DecodeFieldOfKey(tok.v) # 0 THEN
        LET f == Fields[DecodeFieldOfKey(tok.v)]
            d == DecodeValue(decodedType(f), tk)
            x == IF f.type = "jwa.KeyAlgorithm" THEN KeyAlgorithmFrom(d[2])
                 ELSE IF IsPointer(f) THEN Val(f.type, d[2].v)
                 ELSE d[2]
        IN  IF ~d[1] THEN Step(o, "value", decodeCaseKey[DecodeFieldOfKey(tok.v)], 0)
            ELSE Step([o EXCEPT !.slots[f.name] = x], "", "", i + 2)
    ELSE
        LET d == decodeExtension(o, tok.v, tk) IN
        IF d[1] THEN Step(storeDecoded(o, tok.v, d[2]), "", "", i + 2)
        ELSE Step(o, "undecodable", tok.v, 0)

\* The token loop from position i on.
RECURSIVE decodeLoop(_, _, _)
decodeLoop(o, toks, i) ==
    LET s == decodeStep(o, toks, i) IN
    IF s.next = 0 THEN Result(s.h, s.err, s.ekey)
    ELSE decodeLoop(s.h, toks, s.next)

\* UnmarshalJSON(buf): the object afterwards, the error and the key it names.
UnmarshalJSONNoReset(o, toks) == decodeLoop(o, toks, 1)

\* A decode that takes the discriminator for a required member.
UnmarshalJSONRequiresKeyType(o, toks) ==
    LET r == decodeLoop([o EXCEPT !.slots = [n \in FieldNames |-> NIL]], toks, 1) IN
    IF r.err = "" /\ \A i \in 1..Len(toks) : i % 2 = 0 => toks[i] # Tok("string", KeyTypeKey)
    THEN Result(r.h, "required", KeyTypeKey)
    ELSE r

UnmarshalJSON(o, toks) ==
    decodeLoop([o EXCEPT !.slots = [n \in FieldNames |-> NIL]], toks, 1)

(***************************************************************************)
(* makePairs and MarshalJSON.  order is the order in which the range over  *)
(* the privateParams map yields its keys.                                  *)
(***************************************************************************)
Pair(k, x) == [Key |-> k, Value |-> x]

\* The pairs of the static fields with the values Get returns.
RECURSIVE staticPairsOfGet(_, _)
staticPairsOfGet(o, i) ==
    IF i > Len(Fields) THEN <<>>
    ELSE (IF o.slots[Fields[i].name] # NIL
          THEN <<Pair(caseKey[i], Get(o, caseKey[i])[1])>> ELSE <<>>)
         \o staticPairsOfGet(o, i + 1)

RECURSIVE staticPairs(_, _)
staticPairs(o, i) ==
    IF i > Len(Fields) THEN <<>>
    ELSE LET f == Fields[i] IN
         (IF o.slots[f.name] # NIL
          THEN <<Pair(caseKey[i], o.slots[f.name])>> ELSE <<>>)
         \o staticPairs(o, i + 1)

makePairsNoPrivate(o, order) == <<Pair("kty", KeyTypeValue)>> \o staticPairs(o, 1)

makePairs(o, order) ==
    <<Pair("kty", KeyTypeValue)>> \o staticPairs(o, 1)
        \o [i \in 1..Len(order) |-> Pair(order[i], o.privateParams[order[i]])]

\* Byte order of the characters that occur in keys.
CharOrder == "0123456789ABCDEFGHIJKLMNOPQRSTUVWXYZ_abcdefghijklmnopqrstuvwxyz"

CharCodes ==
    [c \in { SubSeq(CharOrder, i, i) : i \in 1..Len(CharOrder) } |->
        CHOOSE i \in 1..Len(CharOrder) : SubSeq(CharOrder, i, i) = c]

CharCode(c) == CharCodes[c]

\* a < b for Go strings.
RECURSIVE StrLess(_, _)
StrLess(a, b) ==
    IF Len(b) = 0 THEN FALSE
    ELSE IF Len(a) = 0 THEN TRUE
    ELSE LET ca == CharCode(SubSeq(a, 1, 1))
             cb == CharCode(SubSeq(b, 1, 1))
         IN  IF ca # cb THEN ca < cb
             ELSE StrLess(SubSeq(a, 2, Len(a)), SubSeq(b, 2, Len(b)))

\* sort.Strings.
notSorted(s) == s

RECURSIVE sortStrings(_)
sortStrings(s) ==
    IF Len(s) <= 1 THEN s
    ELSE LET m == CHOOSE i \in 1..Len(s) : \A j \in 1..Len(s) : ~StrLess(s[j], s[i])
             rest == [j \in 1..(Len(s) - 1) |-> IF j < m THEN s[j] ELSE s[j + 1]]
         IN  <<s[m]>> \o sortStrings(rest)

\* The orders in which a range over the map m may yield its keys.
Orders(m) ==
    { s \in [1..Cardinality(DOMAIN m) -> DOMAIN m] :
          \A i, j \in 1..Cardinality(DOMAIN m) : i # j => s[i] # s[j] }

\* The value the data map holds for key k: the last pair with that key.
dataOf(pairs, k) ==
    pairs[CHOOSE i \in 1..Len(pairs) :
              pairs[i].Key = k /\ \A j \in (i + 1)..Len(pairs) : pairs[j].Key # k].Value

\* What MarshalJSON writes for the value x: base64 text for a []byte, the
\* output of the generic encoder otherwise.
writeValue(x) ==
    IF x.t = "[]byte" THEN Tok("string", Base64Encode(x.v)) ELSE EncodeValue(x)

RECURSIVE writeFields(_, _, _)
writeFields(pairs, fields, i) ==
    IF i > Len(fields) THEN <<>>
    ELSE <<Tok("string", fields[i]), writeValue(dataOf(pairs, fields[i]))>>
         \o writeFields(pairs, fields, i + 1)

\* MarshalJSON(): the bytes written (as tokens) and the error.
MarshalJSON(o, order) ==
    LET pairs == makePairs(o, order)
        fields == sortStrings([i \in 1..Len(pairs) |-> pairs[i].Key])
    IN  IF \E i \in 1..Len(pairs) : ~Encodable(pairs[i].Value)
        THEN [out |-> <<>>, err |-> "encode"]
        ELSE [out |-> <<Tok("delim", "{")>> \o writeFields(pairs, fields, 1)
                          \o <<Tok("delim", "}")>>,
              err |-> ""]

(***************************************************************************)
(* Inputs of the operations.                                               *)
(***************************************************************************)
\* The keys and values Set is called with: for each key the values its case
\* accepts and values it rejects.
SetInputs ==
    { <<"kty", Val("string", "EC")>>,
      <<"alg", Val("string", "sig")>>,
      <<"alg", ForSignature>>,
      <<"alg", Val("int", "7")>>,
      <<"kid", Val("string", "sig")>>,
      <<"kid", Val("int", "7")>>,
      <<"key_ops", Val("KeyOperationList", "sig")>>,
      <<"key_ops", Val("string", "sig")>>,
      <<"key_ops", Val("int", "7")>>,
      <<"use", ForSignature>>,
      <<"use", Val("string", "sig")>>,
      <<"use", Val("KeyUsageType", "bogus")>>,
      <<"use", Val("int", "7")>>,
      <<"n", Val("[]byte", "\\x01")>>,
      <<"n", Val("[]byte", NilMark)>>,
      <<"n", Val("string", "sig")>>,
      <<"x5c", Val("*cert.Chain", "MIIB")>>,
      <<"x5c", Val("string", "sig")>>,
      <<"bar", Val("string", "sig")>>,
      <<"zzz", Val("int", "7")>> }

\* The members (key, value token) payloads are made of.
Members ==
    { <<"kty", Tok("string", "RSA")>>,
      <<"kty", Tok("string", "EC")>>,
      <<"n", Tok("string", "AQ")>>,
      <<"zzz", Tok("number", "7")>> }

RECURSIVE memberTokens(_)
memberTokens(ms) ==
    IF ms = <<>> THEN <<>>
    ELSE <<Tok("string", Head(ms)[1]), Head(ms)[2]>> \o memberTokens(Tail(ms))

\* The token stream of the JSON object with members ms.
ObjectTokens(ms) == <<Tok("delim", "{")>> \o memberTokens(ms) \o <<Tok("delim", "}")>>

\* Inputs that are no JSON object: empty, truncated, an array, a number.
Malformed ==
    { <<>>,
      <<Tok("delim", "{")>>,
      <<Tok("delim", "{"), Tok("string", "kid")>>,
      <<Tok("delim", "[")>>,
      <<Tok("number", "7")>> }

\* Objects with a value of the wrong JSON type for a static field.
BadValues ==
    { ObjectTokens(<< <<"kid", Tok("number", "7")>> >>),
      ObjectTokens(<< <<"kty", Tok("string", "RSA")>>, <<"n", Tok("number", "7")>> >>) }

\* Objects with keys that are no static field: values that both registries,
\* one of them or none of them decode (a key may occur twice in an object:
\* the second value replaces the first).
ExtensionPayloads ==
    { ObjectTokens(<< <<"bar", Tok("string", "sig")>> >>),
      ObjectTokens(<< <<"bar", Tok("number", "7")>>, <<"bar", Tok("string", "sig")>> >>),
      ObjectTokens(<< <<"zzz", Tok("array", "MIIB")>> >>),
      ObjectTokens(<< <<"bar", Tok("string", "sig")>>, <<"zzz", Tok("number", "7")>> >>),
      ObjectTokens(<< <<"kty", Tok("string", "RSA")>>, <<"n", Tok("string", "AQ")>>,
                      <<"bar", Tok("string", "sig")>> >>) }

Payloads ==
    { ObjectTokens(ms) : ms \in UNION { [1..n -> Members] : n \in 0..MaxMembers } }
        \cup Malformed \cup BadValues \cup ExtensionPayloads

(***************************************************************************)
(* The state machine: one runtime object h, and the last call on it.       *)
(***************************************************************************)
Call(op, key, val, err, ekey, buf) ==
    [op |-> op, key |-> key, val |-> val, err |-> err, ekey |-> ekey, buf |-> buf]

\* The goroutines that call methods of the object.
Procs == {"p1", "p2"}

NoProc == "none"

\* mu: &sync.RWMutex{} of the constructor: no writer, no reader.
Unlocked == [writer |-> NoProc, readers |-> {}]

\* The locals of a goroutine that has made no call yet.
NoCall ==
    [op |-> "", key |-> "", val |-> NIL, buf |-> <<>>, i |-> 0,
     copy |-> NewObject.slots, pairs |-> <<>>, ret |-> NIL, found |-> FALSE,
     err |-> "", ekey |-> ""]

\* No iteration has been started.
NoIteration ==
    [active |-> FALSE, done |-> FALSE, pairs |-> <<>>, i |-> 0, ch |-> <<>>,
     closed |-> FALSE, recv |-> <<>>]

\* No run of the generator.
NoRun == [pc |-> "", kt |-> <<>>, i |-> 0, constants |-> <<>>, structs |-> <<>>, err |-> ""]

\* The slots and the extension map of o: what makePairs reads.
View(o) == [slots |-> o.slots, privateParams |-> o.privateParams]

\* The history kept of concurrent calls, when on: pre is the object as it
\* was when the goroutine now mutating it took the lock; cands[p], for p in
\* MarshalJSON, are the states the object had between two mutations since
\* the call that agree with the slots the call has copied so far.
NoHistory == [on |-> FALSE, pre |-> View(NewObject), cands |-> [p \in Procs |-> {}]]

\* Nobody calls the object concurrently.
SingleCaller ==
    /\ mu = Unlocked
    /\ pc = [p \in Procs |-> "done"]
    /\ locals = [p \in Procs |-> NoCall]
    /\ hist = NoHistory

\* A call by the single caller leaves the lock free and starts nothing else.
CallFrame == UNCHANGED <<mu, pc, locals, it, gen, hist>>

Init ==
    /\ h = NewObject
    /\ last = Call("new", "", NIL, "", "", <<>>)
    /\ SingleCaller
    /\ it = NoIteration
    /\ gen = NoRun

\* h.Set(name, value)
Set(name, value) ==
    LET r == setNoLock(h, name, value) IN
    /\ h' = r.h
    /\ last' = Call("Set", name, value, r.err, r.ekey, <<>>)
    /\ CallFrame

\* h.Remove(key)
Remove(key) ==
    /\ h' = RemoveKey(h, key)
    /\ last' = Call("Remove", key, NIL, "", "", <<>>)
    /\ CallFrame

\* h.SetDecodeCtx(dc)
SetDecodeCtx(dc) ==
    /\ h' = [h EXCEPT !.dc = dc]
    /\ last' = Call("SetDecodeCtx", dc, NIL, "", "", <<>>)
    /\ CallFrame

\* h.UnmarshalJSON(buf)
Unmarshal(buf) ==
    LET r == UnmarshalJSON(h, buf) IN
    /\ h' = r.h
    /\ last' = Call("UnmarshalJSON", "", NIL, r.err, r.ekey, buf)
    /\ CallFrame

\* h.MarshalJSON(), the range over privateParams yielding its keys in some order
Marshal ==
    \E order \in Orders(h.privateParams) :
        LET r == MarshalJSON(h, order) IN
        /\ h' = h
        /\ last' = Call("MarshalJSON", "", NIL, r.err, "", r.out)
        /\ CallFrame

\* The buffers UnmarshalJSON is called with: a payload, or what MarshalJSON
\* has just returned.
Buffers ==
    Payloads \cup (IF last.op = "MarshalJSON" /\ last.err = "" THEN {last.buf} ELSE {})

Next ==
    \/ \E in \in SetInputs : Set(in[1], in[2])
    \/ \E key \in Keys : Remove(key)
    \/ \E dc \in DecodeCtxs : SetDecodeCtx(dc)
    \/ \E buf \in Buffers : Unmarshal(buf)
    \/ Marshal

Spec == Init /\ [][Next]_vars

(***************************************************************************)
(* Concurrent callers.  Each goroutine of Procs calls one method at a      *)
(* time; a method is a sequence of steps, one per access to the lock or to *)
(* the object.  pc[p] is the step goroutine p takes next ("done": it is    *)
(* in no call) and locals[p] holds the call and the locals of the method.  *)
(* Iterate is followed here up to the return of makePairs; the goroutine   *)
(* it starts works on that pair list alone and is modelled by IterSpec.    *)
(***************************************************************************)
ACall(op, key, val, buf) == [op |-> op, key |-> key, val |-> val, buf |-> buf]

\* The calls the goroutines make.
ConcCalls ==
    { ACall("Get", "kid", NIL, <<>>),
      ACall("Get", "bar", NIL, <<>>),
      ACall("KeyID", "kid", NIL, <<>>),
      ACall("N", "n", NIL, <<>>),
      ACall("Set", "kid", Val("string", "sig"), <<>>),
      ACall("Set", "kid", Val("int", "7"), <<>>),
      ACall("Set", "bar", Val("string", "sig"), <<>>),
      ACall("Remove", "kid", NIL, <<>>),
      ACall("DecodeCtx", "", NIL, <<>>),
      ACall("SetDecodeCtx", "localRegistry", NIL, <<>>),
      ACall("UnmarshalJSON", "", NIL,
            ObjectTokens(<< <<"kty", Tok("string", "RSA")>>, <<"n", Tok("string", "AQ")>> >>)),
      ACall("UnmarshalJSON", "", NIL,
            ObjectTokens(<< <<"n", Tok("string", "AQ")>>, <<"kty", Tok("string", "EC")>> >>)),
      ACall("UnmarshalJSON", "", NIL,
            ObjectTokens(<< <<"bar", Tok("string", "sig")>>, <<"zzz", Tok("number", "7")>> >>)),
      ACall("UnmarshalJSON", "", NIL,
            ObjectTokens(<< <<"kty", Tok("string", "RSA")>>, <<"n", Tok("number", "7")>> >>)),
      ACall("MarshalJSON", "", NIL, <<>>),
      ACall("Iterate", "", NIL, <<>>) }

\* The methods that start with mu.RLock(), with mu.Lock(), and the typed
\* getters, which take no lock.
ReadLocked == {"Get", "DecodeCtx", "Iterate"}

WriteLocked == {"Set", "Remove", "SetDecodeCtx", "UnmarshalJSON"}

Getters == {"KeyID", "N"}

\* The first step of a call of op.
FirstStep(op) ==
    IF op \in ReadLocked THEN "RLock"
    ELSE IF op \in WriteLocked THEN "Lock"
    ELSE IF op \in Getters THEN "check"
    ELSE "copy"

\* codegen.ZeroVal of a type.
ZeroVal(T) == Val(T, "")

\* The typed getter of field f, run with no other goroutine at work.
TypedGetter(o, f) ==
    LET x == o.slots[f.name] IN
    IF f.hasGet THEN IF x # NIL THEN GetDefault(x) ELSE ZeroVal(PointerElem(f))
    ELSE IF ~IsPointer(f) /\ fieldStorageTypeIsIndirect(f.type)
    THEN IF x # NIL THEN x ELSE ZeroVal(PointerElem(f))
    ELSE x

ConcStart ==
    /\ h = NewObject
    /\ last = Call("new", "", NIL, "", "", <<>>)
    /\ mu = Unlocked
    /\ pc = [p \in Procs |-> "done"]
    /\ locals = [p \in Procs |-> NoCall]
    /\ it = NoIteration
    /\ gen = NoRun

ConcInit == ConcStart /\ hist = [NoHistory EXCEPT !.on = TRUE]

\* What a step of a goroutine leaves alone besides the object and the lock.
StepFrame == UNCHANGED <<last, it, gen, hist>>

\* The same for a step that the history records: hist becomes to.
Recorded(to) ==
    /\ hist' = IF hist.on THEN to ELSE hist
    /\ UNCHANGED <<last, it, gen>>

\* Goroutine p moves to step to with locals l; its locals end with the call.
Goto(p, to, l) ==
    /\ pc' = [pc EXCEPT ![p] = to]
    /\ locals' = [locals EXCEPT ![p] = IF to = "done" THEN NoCall ELSE l]

\* The object as the last completed mutation left it.
Committed == IF mu.writer = NoProc THEN View(h) ELSE hist.pre

\* p calls a method.  For MarshalJSON the history starts with the object as
\* it is, between two mutations, at the call.
Begin(p, c) ==
    /\ pc[p] = "done"
    /\ Goto(p, FirstStep(c.op),
            [NoCall EXCEPT !.op = c.op, !.key = c.key, !.val = c.val, !.buf = c.buf,
                           !.i = 1])
    /\ UNCHANGED <<h, mu>>
    /\ Recorded([hist EXCEPT !.cands[p] =
                     IF c.op = "MarshalJSON" THEN {Committed} ELSE {}])

\* mu.RLock(): blocks while a writer holds the lock.
AcquireRead(p) ==
    /\ pc[p] = "RLock"
    /\ mu.writer = NoProc
    /\ mu' = [mu EXCEPT !.readers = @ \cup {p}]
    /\ Goto(p, "body", locals[p])
    /\ UNCHANGED h
    /\ StepFrame

\* mu.Lock(): blocks while a writer or a reader holds the lock.
AcquireWrite(p) ==
    /\ pc[p] = "Lock"
    /\ mu.writer = NoProc /\ mu.readers = {}
    /\ mu' = [mu EXCEPT !.writer = p]
    /\ Goto(p, IF locals[p].op = "UnmarshalJSON" THEN "reset" ELSE "body", locals[p])
    /\ UNCHANGED h
    /\ Recorded([hist EXCEPT !.pre = View(h)])

\* The deferred mu.RUnlock() of Get, DecodeCtx and makePairs.
ReleaseRead(p) ==
    /\ pc[p] = "RUnlock"
    /\ mu' = [mu EXCEPT !.readers = @ \ {p}]
    /\ Goto(p, "done", locals[p])
    /\ UNCHANGED h
    /\ StepFrame

\* An Unlock that runs on the successful return only.
unlocksOnSuccessOnly(err) == err = ""

\* The deferred mu.Unlock() of Set, Remove, SetDecodeCtx and UnmarshalJSON:
\* whether it runs when the method returns err.
unlocks(err) == TRUE

\* The history of the MarshalJSON call of r once a mutation has left the
\* object as s: s is kept if it agrees with the slots r has copied so far.
Noted(r, s) ==
    IF /\ locals[r].op = "MarshalJSON" /\ pc[r] \in {"copy", "RLock"}
       /\ \A j \in FieldIdx :
             (pc[r] = "RLock" \/ j < locals[r].i)
                 => s.slots[Fields[j].name] = locals[r].copy[Fields[j].name]
    THEN hist.cands[r] \cup {s}
    ELSE hist.cands[r]

ReleaseWrite(p) ==
    /\ pc[p] = "Unlock"
    /\ mu' = IF unlocks(locals[p].err) THEN [mu EXCEPT !.writer = NoProc] ELSE mu
    /\ Goto(p, "done", locals[p])
    /\ UNCHANGED h
    /\ Recorded([hist EXCEPT !.pre = NoHistory.pre,
                             !.cands = [r \in Procs |-> Noted(r, View(h))]])

\* The switch of Get.
GetBody(p) ==
    /\ pc[p] = "body" /\ locals[p].op = "Get"
    /\ LET r == Get(h, locals[p].key) IN
       Goto(p, "RUnlock", [locals[p] EXCEPT !.ret = r[1], !.found = r[2]])
    /\ UNCHANGED <<h, mu>>
    /\ StepFrame

\* return k.dc
DecodeCtxBody(p) ==
    /\ pc[p] = "body" /\ locals[p].op = "DecodeCtx"
    /\ Goto(p, "RUnlock", [locals[p] EXCEPT !.ret = Val("json.DecodeCtx", h.dc)])
    /\ UNCHANGED <<h, mu>>
    /\ StepFrame

\* The body of makePairs.  Iterate calls it on the object; MarshalJSON, whose
\* receiver is a value, calls it on its copy of the struct, which shares the
\* privateParams map and the lock with the object (what MarshalJSON then
\* does with the pairs touches neither).
MakePairsBody(p) ==
    /\ pc[p] = "body" /\ locals[p].op \in {"Iterate", "MarshalJSON"}
    /\ \E order \in Orders(h.privateParams) :
          LET recv == IF locals[p].op = "MarshalJSON"
                      THEN [h EXCEPT !.slots = locals[p].copy] ELSE h
          IN  Goto(p, "RUnlock", [locals[p] EXCEPT !.pairs = makePairs(recv, order)])
    /\ UNCHANGED <<h, mu>>
    /\ StepFrame

\* The call of a method with a value receiver copies the struct without the
\* lock: one slot after the other, each read at a time of its own.
MarshalCopy(p) ==
    /\ pc[p] = "copy"
    /\ LET n == Fields[locals[p].i].name
           l == [locals[p] EXCEPT !.copy[n] = h.slots[n]]
       IN  /\ IF locals[p].i = Len(Fields)
              THEN Goto(p, "RLock", [l EXCEPT !.i = 1])
              ELSE Goto(p, "copy", [l EXCEPT !.i = @ + 1])
           /\ Recorded([hist EXCEPT !.cands[p] =
                            { s \in @ : s.slots[n] = h.slots[n] }])
    /\ UNCHANGED <<h, mu>>

\* return h.setNoLock(name, value)
SetBody(p) ==
    /\ pc[p] = "body" /\ locals[p].op = "Set"
    /\ LET r == setNoLock(h, locals[p].key, locals[p].val) IN
       /\ h' = r.h
       /\ Goto(p, "Unlock", [locals[p] EXCEPT !.err = r.err, !.ekey = r.ekey])
    /\ UNCHANGED mu
    /\ StepFrame

\* The switch of Remove.
RemoveBody(p) ==
    /\ pc[p] = "body" /\ locals[p].op = "Remove"
    /\ h' = RemoveKey(h, locals[p].key)
    /\ Goto(p, "Unlock", locals[p])
    /\ UNCHANGED mu
    /\ StepFrame

\* k.dc = dc
SetDecodeCtxBody(p) ==
    /\ pc[p] = "body" /\ locals[p].op = "SetDecodeCtx"
    /\ h' = [h EXCEPT !.dc = locals[p].key]
    /\ Goto(p, "Unlock", locals[p])
    /\ UNCHANGED mu
    /\ StepFrame

\* UnmarshalJSON going to the token loop with the slots as they are.
UnmarshalKeepsSlots(p) ==
    /\ pc[p] = "reset"
    /\ Goto(p, "loop", locals[p])
    /\ UNCHANGED <<h, mu>>
    /\ StepFrame

\* UnmarshalJSON: h.f = nil for every field.
UnmarshalReset(p) ==
    /\ pc[p] = "reset"
    /\ h' = [h EXCEPT !.slots = [n \in FieldNames |-> NIL]]
    /\ Goto(p, "loop", locals[p])
    /\ UNCHANGED mu
    /\ StepFrame

\* UnmarshalJSON: one iteration of the token loop.
UnmarshalLoop(p) ==
    /\ pc[p] = "loop"
    /\ LET s == decodeStep(h, locals[p].buf, locals[p].i) IN
       /\ h' = s.h
       /\ IF s.next = 0
          THEN Goto(p, "Unlock", [locals[p] EXCEPT !.err = s.err, !.ekey = s.ekey])
          ELSE Goto(p, "loop", [locals[p] EXCEPT !.i = s.next])
    /\ UNCHANGED mu
    /\ StepFrame

\* The field a typed getter reads.
GetterField(p) == Fields[FieldOfKey(locals[p].key)]

\* A typed getter: if h.f != nil (a direct field without hasGet is returned
\* as it is).
GetterCheck(p) ==
    /\ pc[p] = "check"
    /\ LET f == GetterField(p)
           x == h.slots[f.name]
       IN  IF ~f.hasGet /\ (IsPointer(f) \/ ~fieldStorageTypeIsIndirect(f.type))
           THEN Goto(p, "return", [locals[p] EXCEPT !.ret = x])
           ELSE IF x = NIL
           THEN Goto(p, "return", [locals[p] EXCEPT !.ret = ZeroVal(PointerElem(f))])
           ELSE Goto(p, "deref", [locals[p] EXCEPT !.ret = x])
    /\ UNCHANGED <<h, mu>>
    /\ StepFrame

\* A typed getter: return *(h.f), or h.f.Get().  The slot is read again, or
\* the value the check has read is used; a slot that is nil by now makes the
\* dereference panic.
GetterDeref(p) ==
    /\ pc[p] = "deref"
    /\ \E x \in {locals[p].ret, h.slots[GetterField(p).name]} :
          IF x = NIL THEN Goto(p, "return", [locals[p] EXCEPT !.ret = NIL, !.err = "panic"])
          ELSE Goto(p, "return",
                    [locals[p] EXCEPT !.ret = IF GetterField(p).hasGet THEN GetDefault(x) ELSE x])
    /\ UNCHANGED <<h, mu>>
    /\ StepFrame

\* A typed getter returns.
GetterReturn(p) ==
    /\ pc[p] = "return"
    /\ Goto(p, "done", locals[p])
    /\ UNCHANGED <<h, mu>>
    /\ StepFrame

\* A step of goroutine p inside a call.
Run(p) ==
    \/ AcquireRead(p) \/ AcquireWrite(p) \/ ReleaseRead(p) \/ ReleaseWrite(p)
    \/ GetBody(p) \/ DecodeCtxBody(p) \/ MakePairsBody(p) \/ MarshalCopy(p)
    \/ SetBody(p) \/ RemoveBody(p) \/ SetDecodeCtxBody(p)
    \/ UnmarshalReset(p) \/ UnmarshalLoop(p)
    \/ GetterCheck(p) \/ GetterDeref(p) \/ GetterReturn(p)

ConcNext ==
    \E p \in Procs :
        \/ \E c \in ConcCalls : Begin(p, c)
        \/ Run(p)

ConcSpec == ConcInit /\ [][ConcNext]_vars

\* The scheduler runs every goroutine that can take a step, and the lock is
\* handed to every goroutine that keeps waiting for it.
Fairness ==
    \A p \in Procs :
        /\ WF_vars(Run(p))
        /\ SF_vars(AcquireRead(p))
        /\ SF_vars(AcquireWrite(p))

\* The same goroutines under fair scheduling; no history is kept.
FairConcInit == ConcStart /\ hist = NoHistory

FairConcSpec == FairConcInit /\ [][ConcNext]_vars /\ Fairness

(***************************************************************************)
(* Iterate.  A single caller fills the object and calls Iterate(ctx); the  *)
(* goroutine Iterate starts sends the pairs into a channel whose capacity  *)
(* is the number of pairs, so a send can always proceed; ctx may be        *)
(* cancelled at any time, before the call too; the consumer of the         *)
(* iterator receives from the channel.                                     *)
(***************************************************************************)
\* The calls of Set by which the caller fills the object.
IterSetInputs ==
    { <<"kid", Val("string", "sig")>>,
      <<"bar", Val("string", "sig")>>,
      <<"zzz", Val("int", "7")>> }

\* What the steps of an iteration leave alone.
IterFrame == UNCHANGED <<h, last, mu, pc, locals, gen, hist>>

\* h.Iterate(ctx), done telling whether ctx is cancelled already: makePairs,
\* make(chan *HeaderPair, len(pairs)) and the go statement.
Iterate(done) ==
    /\ ~it.active
    /\ \E order \in Orders(h.privateParams) :
          it' = [active |-> TRUE, done |-> done, pairs |-> makePairs(h, order),
                 i |-> 1, ch |-> <<>>, closed |-> FALSE, recv |-> <<>>]
    /\ last' = Call("Iterate", "", NIL, "", "", <<>>)
    /\ UNCHANGED <<h, mu, pc, locals, gen, hist>>

\* The caller cancels ctx.
Cancel ==
    /\ it.active /\ ~it.done
    /\ it' = [it EXCEPT !.done = TRUE]
    /\ IterFrame

\* A channel one slot short of the pairs it is to carry.
chanCapOneShort(pairs) == Len(pairs) - 1

\* The capacity of the channel: make(chan *HeaderPair, len(pairs)).
chanCap(pairs) == Len(pairs)

\* The goroutine, select: case ch <- pair, which can proceed while the
\* channel holds fewer pairs than its capacity.
ProducerSend ==
    /\ it.active /\ ~it.closed /\ it.i <= Len(it.pairs)
    /\ Len(it.ch) < chanCap(it.pairs)
    /\ it' = [it EXCEPT !.ch = Append(@, it.pairs[it.i]), !.i = @ + 1]
    /\ IterFrame

\* The goroutine, select: case <-ctx.Done(): return, and the deferred
\* close(ch).
ProducerCancelled ==
    /\ it.active /\ ~it.closed /\ it.i <= Len(it.pairs)
    /\ it.done
    /\ it' = [it EXCEPT !.closed = TRUE]
    /\ IterFrame

\* The goroutine at the end of the range over pairs: the deferred close(ch).
ProducerClose ==
    /\ it.active /\ ~it.closed /\ it.i > Len(it.pairs)
    /\ it' = [it EXCEPT !.closed = TRUE]
    /\ IterFrame

\* The consumer receives a pair from the channel.
Receive ==
    /\ it.active /\ it.ch # <<>>
    /\ it' = [it EXCEPT !.recv = Append(@, Head(it.ch)), !.ch = Tail(@)]
    /\ IterFrame

\* The consumer finds the channel closed and drained: the iteration is over.
EndIteration ==
    /\ it.active /\ it.closed /\ it.ch = <<>>
    /\ it' = NoIteration
    /\ IterFrame

IterNext ==
    \/ \E in \in IterSetInputs : Set(in[1], in[2])
    \/ \E done \in BOOLEAN : Iterate(done)
    \/ Cancel
    \/ ProducerSend
    \/ ProducerCancelled
    \/ ProducerClose
    \/ Receive
    \/ EndIteration

IterSpec == Init /\ [][IterNext]_vars

\* The steps of the goroutine Iterate starts.
Producer == ProducerSend \/ ProducerCancelled \/ ProducerClose

\* The scheduler runs a goroutine that can take a step; nothing makes the
\* consumer receive or the caller cancel.
FairIterSpec == Init /\ [][IterNext]_vars /\ WF_vars(Producer)

(***************************************************************************)
(* The generator: generateKeyType over a KeyType group read from the       *)
(* schema.  Every object of a group holds the standard fields (_main adds  *)
(* them) and some fields of its own; a field name occurs once in an        *)
(* object, and may occur in several objects of the group.                  *)
(***************************************************************************)
\* Largest number of objects of a KeyType group.
MaxObjects == 2

\* The fields a schema is made of, in the order Organize() gives them: the
\* standard fields and the fields of the family, among them one name (N)
\* declared with two wire keys and a list type other than KeyOperationList.
SchemaFields ==
    << Fields[1],
       Field("crv", "Crv", "crv", "jwa.EllipticCurveAlgorithm", FALSE, TRUE, FALSE, FALSE),
       Fields[2], Fields[3], Fields[4],
       Field("n", "N", "n", "[]byte", FALSE, TRUE, FALSE, FALSE),
       Field("n", "N", "modulus", "[]byte", FALSE, TRUE, FALSE, FALSE),
       Field("tags", "Tags", "tags", "TagList", FALSE, FALSE, FALSE, FALSE),
       Fields[6] >>

\* The fields of SchemaFields at the positions S, in order.
RECURSIVE FieldsAt(_, _)
FieldsAt(S, i) ==
    IF i > Len(SchemaFields) THEN <<>>
    ELSE (IF i \in S THEN <<SchemaFields[i]>> ELSE <<>>) \o FieldsAt(S, i + 1)

\* obj.Fields() of the objects a schema can declare.
SchemaObjects ==
    { FieldsAt(S, 1) :
        S \in { T \in SUBSET (1..Len(SchemaFields)) :
                  /\ \A i \in 1..Len(SchemaFields) : SchemaFields[i].is_std => i \in T
                  /\ \A i, j \in T : i # j => SchemaFields[i].name # SchemaFields[j].name } }

\* The KeyType groups: kt.Prefix and kt.Objects.
KeyTypes ==
    { [Prefix |-> KeyType.Prefix, Objects |-> objs] :
        objs \in UNION { [1..n -> SchemaObjects] : n \in 1..MaxObjects } }

\* The fields of the objects from object i on, in the order of the two loops.
RECURSIVE fieldsFrom(_, _)
fieldsFrom(objs, i) ==
    IF i > Len(objs) THEN <<>> ELSE objs[i] \o fieldsFrom(objs, i + 1)

Constant(name, value) == [Name |-> name, Value |-> value]

\* The loop with no seen map: one constant per field that is not standard.
RECURSIVE appendConstantsNotSeen(_, _, _, _)
appendConstantsNotSeen(prefix, fs, seen, constants) ==
    IF fs = <<>> THEN constants
    ELSE LET f == Head(fs) IN
         IF f.is_std THEN appendConstantsNotSeen(prefix, Tail(fs), seen, constants)
         ELSE appendConstantsNotSeen(prefix, Tail(fs), seen,
                  Append(constants, Constant(prefix \o f.exported \o "Key", f.json)))

\* The loop over the fields fs: a field that is standard or whose name was
\* seen is skipped, any other adds its constant.
RECURSIVE appendConstants(_, _, _, _)
appendConstants(prefix, fs, seen, constants) ==
    IF fs = <<>> THEN constants
    ELSE LET f == Head(fs) IN
         IF f.is_std \/ f.exported \in seen
         THEN appendConstants(prefix, Tail(fs), seen, constants)
         ELSE appendConstants(prefix, Tail(fs), seen \cup {f.exported},
                  Append(constants, Constant(prefix \o f.exported \o "Key", f.json)))

\* sort.Slice(constants, by Name); sort.Slice is not stable, so constants of
\* the same name come in any order: the sorted sequences.
sortedByName(constants) ==
    { s \in [1..Len(constants) -> { constants[i] : i \in 1..Len(constants) }] :
        /\ \A c \in { constants[i] : i \in 1..Len(constants) } :
              Cardinality({ i \in 1..Len(s) : s[i] = c })
                  = Cardinality({ i \in 1..Len(constants) : constants[i] = c })
        /\ \A i \in 1..(Len(s) - 1) : ~StrLess(s[i + 1].Name, s[i].Name) }

\* What generateObject emits for an object: the fields of the struct and
\* their storage types, and for each field the key constant of its case in
\* Get, setNoLock, Remove and makePairs (key) and of its case in
\* UnmarshalJSON (decodeKey).
structOf(obj) ==
    [i \in 1..Len(obj) |->
        [name |-> obj[i].name, type |-> fieldStorageType(obj[i].type),
         key |-> keyName(obj[i]), decodeKey |-> decodeKeyName(obj[i])]]

GenInit ==
    /\ h = NewObject
    /\ last = Call("new", "", NIL, "", "", <<>>)
    /\ SingleCaller
    /\ it = NoIteration
    /\ \E kt \in KeyTypes : gen = [NoRun EXCEPT !.pc = "constants", !.kt = kt]

GenFrame == UNCHANGED <<h, last, mu, pc, locals, it, hist>>

\* generateKeyType up to the const block: the loops over the objects and
\* their fields, the sort, and the block written to the output.
GenerateConstants ==
    /\ gen.pc = "constants"
    /\ \E sorted \in sortedByName(appendConstants(gen.kt.Prefix,
                         fieldsFrom(gen.kt.Objects, 1), {}, <<>>)) :
          gen' = [gen EXCEPT !.pc = "objects", !.i = 1, !.constants = sorted]
    /\ GenFrame

\* generateObject for the next object of the group.
GenerateObject ==
    /\ gen.pc = "objects" /\ gen.i <= Len(gen.kt.Objects)
    /\ gen' = [gen EXCEPT !.i = @ + 1,
                          !.structs = Append(@, structOf(gen.kt.Objects[gen.i]))]
    /\ GenFrame

\* o.WriteFile(kt.Filename): the run ends.
WriteFile ==
    /\ gen.pc = "objects" /\ gen.i > Len(gen.kt.Objects)
    /\ gen' = [gen EXCEPT !.pc = "written"]
    /\ GenFrame

GenNext == GenerateConstants \/ GenerateObject \/ WriteFile

GenSpec == GenInit /\ [][GenNext]_vars

(***************************************************************************)
(* Properties.                                                             *)
(***************************************************************************)
\* buf is the token stream of a JSON object: "{", members, "}".
IsObject(buf) ==
    /\ Len(buf) >= 2 /\ Len(buf) % 2 = 0
    /\ buf[1] = Tok("delim", "{") /\ buf[Len(buf)] = Tok("delim", "}")
    /\ \A i \in 2..(Len(buf) - 1) : buf[i].kind # "delim"
    /\ \A i \in 1..((Len(buf) - 2) \div 2) : buf[2 * i].kind = "string"

NumMembers(buf) == (Len(buf) - 2) \div 2

MemberKey(buf, m) == buf[2 * m].v

MemberValue(buf, m) == buf[2 * m + 1]

\* The value the claim C1 expects Get to return after Set(key of field i, x):
\* the coerced form for the algorithm and key-usage fields, x otherwise.
DocumentedCoercion(name, x) ==
    IF name = "alg" THEN Val("jwa.KeyAlgorithm", x.v)
    ELSE IF name = "use" THEN Val("string", x.v)
    ELSE x

\* C1 as stated: after a successful Set(k, v) on a static field key or an
\* unrecognized key, Get(k) returns (v, found), v coerced for the algorithm and
\* key-usage fields.
C1_SetThenGetAsStated ==
    (last.op = "Set" /\ last.err = "" /\ last.key # KeyTypeKey)
        => Get(h, last.key) = <<DocumentedCoercion(last.key, last.val), TRUE>>

\* The value Get returns after a successful Set of x on field i.
ValueAfterSet(i, x) ==
    LET f == Fields[i]
        stored == IF f.name = "algorithm" THEN Val("jwa.KeyAlgorithm", x.v)
                  ELSE IF f.name = "keyUsage" THEN Val("string", x.v)
                  ELSE IF f.hasAccept THEN Val(f.type, x.v)
                  ELSE x
    IN  IF f.hasGet THEN Val("[]string", stored.v) ELSE stored

\* C1 (amended): after a successful Set(k, v), Get(k) returns (v, found) for an
\* unrecognized key; for a static field it returns found unless the field is
\* stored directly and v is a nil slice or pointer, and the value is v, or the
\* coerced form of v for the algorithm, key-usage and hasAccept fields, or
\* Get() of the stored value for a hasGet field.
C1_SetThenGet ==
    (last.op = "Set" /\ last.err = "" /\ last.key # KeyTypeKey) =>
        LET i == FieldOfKey(last.key) IN
        IF i = 0 THEN Get(h, last.key) = <<last.val, TRUE>>
        ELSE IF ~indirect[i] /\ IsNilValue(last.val) THEN Get(h, last.key) = <<NIL, FALSE>>
        ELSE Get(h, last.key) = <<ValueAfterSet(i, last.val), TRUE>>

C1_Witness ==
    /\ last.op = "Set" /\ last.err = "" /\ last.key = "alg"
    /\ last.val = ForSignature
    /\ Get(h, "alg") = <<Val("jwa.KeyAlgorithm", "sig"), TRUE>>
    /\ DOMAIN h.privateParams # {}

\* C2: in every state Get("kty") returns the family's value, which is what
\* KeyType() returns; Set("kty", v) and Remove("kty") return nil and change
\* no slot and no entry of the extension map.
C2_DiscriminatorFixed ==
    [][ /\ Get(h', KeyTypeKey) = <<KeyTypeValue, TRUE>>
        /\ KeyTypeKey \notin DOMAIN h'.privateParams
        /\ (last'.op \in {"Set", "Remove"} /\ last'.key = KeyTypeKey)
              => (last'.err = "" /\ h' = h) ]_vars

C2_Witness ==
    /\ last.op = "Set" /\ last.key = KeyTypeKey /\ last.err = ""
    /\ h.slots["n"] # NIL
    /\ DOMAIN h.privateParams # {}

\* The keys of a pair list are pairwise different.
NoKeyTwice(pairs) ==
    \A i, j \in 1..Len(pairs) : i # j => pairs[i].Key # pairs[j].Key

\* C8: the extension map holds neither the discriminator key nor the key of
\* a static field, and the pair list of makePairs holds no key twice.
C8_StorageDisjoint ==
    /\ DOMAIN h.privateParams \cap ({KeyTypeKey} \cup StaticKeys) = {}
    /\ \A order \in Orders(h.privateParams) : NoKeyTwice(makePairs(h, order))

C8_Witness ==
    /\ last.op = "UnmarshalJSON"
    /\ Cardinality(DOMAIN h.privateParams) = 2
    /\ h.slots["n"] # NIL
    /\ h.slots["keyID"] = NIL

\* C9: Remove(k) returns nil; it empties the slot of a static key, deletes the
\* entry of any other key; afterwards Get(k) is not found unless k is the
\* discriminator key, Get of every other key is unchanged, and removing an
\* absent key changes nothing.
C9_RemoveFrame ==
    [][ last'.op = "Remove" =>
          LET k == last'.key IN
          /\ last'.err = ""
          /\ k # KeyTypeKey => Get(h', k) = <<NIL, FALSE>>
          /\ \A j \in Keys \ {k} : Get(h', j) = Get(h, j)
          /\ h'.dc = h.dc
          /\ IF k \in StaticKeys
             THEN /\ h'.privateParams = h.privateParams
                  /\ \A n \in FieldNames :
                        h'.slots[n] = IF n = Fields[FieldOfKey(k)].name THEN NIL ELSE h.slots[n]
             ELSE /\ h'.slots = h.slots
                  /\ DOMAIN h'.privateParams = DOMAIN h.privateParams \ {k}
          /\ ~Get(h, k)[2] => h' = h ]_vars

C9_Witness ==
    /\ last.op = "Remove" /\ last.key = "bar"
    /\ DOMAIN h.privateParams = {"zzz"}
    /\ h.slots["n"] # NIL

\* C10: a Set that returns a type error leaves every slot and the extension
\* map as they were; an unrecognized KeyUsageType for the key-usage field and
\* a value that is neither string, algorithm nor Stringer for the algorithm
\* field are such errors.
C10_FailedSetNoChange ==
    [][ last'.op = "Set" =>
          /\ last'.err # "" => h' = h
          /\ (last'.key = "use" /\ last'.val.t = "KeyUsageType"
                 /\ last'.val \notin {ForSignature, ForEncryption}) => last'.err = "type"
          /\ (last'.key = "alg" /\ last'.val.t = "int") => last'.err = "type" ]_vars

C10_Witness ==
    /\ last.op = "Set" /\ last.err = "type" /\ last.key = "use"
    /\ last.val = Val("KeyUsageType", "bogus")
    /\ h.slots["keyUsage"] # NIL

\* The keys of the members of the JSON object buf.
MemberKeys(buf) == { MemberKey(buf, m) : m \in 1..NumMembers(buf) }

\* The required fields of the schema.
RequiredFields == { i \in FieldIdx : Fields[i].required }

\* Every extension entry of o is written by MarshalJSON as a value that the
\* registries of an object with decode context dc decode to the same value.
ExtRoundTrips(o, dc) ==
    \A k \in DOMAIN o.privateParams :
        decodeExtension([o EXCEPT !.dc = dc], k, writeValue(o.privateParams[k]))
            = <<TRUE, o.privateParams[k]>>

\* Decoding buf into a new object with decode context dc succeeds and Get
\* agrees with o on every key that o holds.
RoundTripsInto(o, buf, dc) ==
    LET r == UnmarshalJSON([NewObject EXCEPT !.dc = dc], buf) IN
    /\ r.err = ""
    /\ \A k \in Keys : Get(o, k)[2] => Get(r.h, k) = Get(o, k)

OutputKeys(buf) == [m \in 1..NumMembers(buf) |-> MemberKey(buf, m)]

\* C4: the output of MarshalJSON is the same for every order in which the
\* extension map yields its entries, and its keys are in strictly increasing
\* lexicographic order (so no key is written twice).
C4_CanonicalOrder ==
    (last.op = "MarshalJSON" /\ last.err = "") =>
        /\ \A order \in Orders(h.privateParams) : MarshalJSON(h, order).out = last.buf
        /\ IsObject(last.buf)
        /\ \A m \in 1..(NumMembers(last.buf) - 1) :
              StrLess(MemberKey(last.buf, m), MemberKey(last.buf, m + 1))
        /\ MemberKeys(last.buf) = { k \in Keys : Get(h, k)[2] }

C4_Witness ==
    /\ last.op = "MarshalJSON" /\ last.err = ""
    /\ DOMAIN h.privateParams = {"bar", "zzz"}
    /\ h.slots["n"] # NIL /\ h.slots["algorithm"] # NIL
    /\ OutputKeys(last.buf) = <<"alg", "bar", "kty", "n", "zzz">>

\* Every member of the JSON object buf is one the decode loop of o accepts:
\* the family's value for the discriminator, a value of the field's type for
\* a static field, a value a registry decodes for any other key.
MembersDecode(o, buf) ==
    \A m \in 1..NumMembers(buf) :
        LET k == MemberKey(buf, m)
            x == MemberValue(buf, m)
        IN  IF k = KeyTypeKey THEN x = Tok("string", KeyTypeValue.v)
            ELSE IF DecodeFieldOfKey(k) # 0
            THEN DecodeValue(decodedType(Fields[DecodeFieldOfKey(k)]), x)[1]
            ELSE decodeExtension(o, k, x)[1]

\* The required fields with no member in the JSON object buf.
AbsentRequired(buf) == { i \in RequiredFields : decodeCaseKey[i] \notin MemberKeys(buf) }

WrongKty(buf) ==
    { m \in 1..NumMembers(buf) :
          /\ MemberKey(buf, m) = KeyTypeKey
          /\ MemberValue(buf, m).kind = "string"
          /\ MemberValue(buf, m).v # KeyTypeValue.v }

\* C6 as stated: after a decode that failed on the discriminator of another
\* family, every static slot is empty, wherever the discriminator stands in
\* the payload.
C6_WrongFamilyAsStated ==
    (last.op = "UnmarshalJSON" /\ last.err = "kty") =>
        \A n \in FieldNames : h.slots[n] = NIL

\* C6 (amended): decoding an object with a discriminator of another family
\* fails; when it fails with the family-mismatch error, the static slots that
\* are set are exactly those of the members before that discriminator, and
\* every slot is empty if the discriminator is the first member.
C6_WrongFamily ==
    (last.op = "UnmarshalJSON" /\ IsObject(last.buf) /\ WrongKty(last.buf) # {}) =>
        LET first == CHOOSE m \in WrongKty(last.buf) : \A j \in WrongKty(last.buf) : m <= j IN
        /\ last.err # ""
        /\ last.err = "kty" =>
              \A i \in FieldIdx :
                  h.slots[Fields[i].name] # NIL
                      <=> \E m \in 1..(first - 1) : MemberKey(last.buf, m) = decodeCaseKey[i]
        /\ first = 1 => (last.err = "kty" /\ \A n \in FieldNames : h.slots[n] = NIL)

C6_Witness ==
    /\ last.op = "UnmarshalJSON" /\ last.err = "kty"
    /\ OutputKeys(last.buf) = <<"n", "kty">>
    /\ h.slots["n"] # NIL

\* C7 as stated: after a successful decode of a payload, Get agrees on every
\* key with a newly constructed object (same decode context) that decoded the
\* same payload.
C7_DecodeReplacesState ==
    (last.op = "UnmarshalJSON" /\ last.err = "") =>
        LET r == UnmarshalJSON([NewObject EXCEPT !.dc = h.dc], last.buf) IN
        \A k \in Keys : Get(h, k) = Get(r.h, k)

\* The members of buf with the discriminator key.
KtyMembers(buf) == { m \in 1..NumMembers(buf) : MemberKey(buf, m) = KeyTypeKey }

\* C23: decode does not require the discriminator.  After the decode of an
\* object with no "kty" member the error is never the family mismatch; it is
\* the missing-field error only for a required field whose slot is empty, and
\* which the error names; so with every required field present and no member
\* that fails to decode, the decode succeeds.  The value is checked at every
\* occurrence of the key: the family mismatch is raised only by a "kty"
\* member of another family, and after a successful decode every "kty" member
\* of the payload holds the family's value.
C23_DiscriminatorOptional ==
    (last.op = "UnmarshalJSON" /\ IsObject(last.buf)) =>
        /\ KtyMembers(last.buf) = {} =>
              /\ last.err \in {"", "value", "undecodable", "required"}
              /\ last.err = "required" =>
                    \E i \in FieldIdx : /\ Fields[i].required
                                        /\ h.slots[Fields[i].name] = NIL
                                        /\ last.ekey = Fields[i].json
              /\ ( /\ last.err \notin {"value", "undecodable"}
                   /\ \A i \in FieldIdx : Fields[i].required => h.slots[Fields[i].name] # NIL )
                    => last.err = ""
        /\ last.err = "kty" => WrongKty(last.buf) # {}
        /\ last.err = "" =>
              \A m \in KtyMembers(last.buf) :
                  MemberValue(last.buf, m) = Tok("string", KeyTypeValue.v)

\* A payload with the required field n and no discriminator has been decoded
\* with success.
C23_Witness ==
    /\ last.op = "UnmarshalJSON" /\ last.err = ""
    /\ IsObject(last.buf) /\ KtyMembers(last.buf) = {}
    /\ NumMembers(last.buf) >= 1
    /\ \A i \in FieldIdx : Fields[i].required => h.slots[Fields[i].name] # NIL

(***************************************************************************)
(* Properties of concurrent callers.                                       *)
(***************************************************************************)
\* The name of the field with wire key k ("" for any other key).
FieldNameOfKey(k) == IF FieldOfKey(k) # 0 THEN Fields[FieldOfKey(k)].name ELSE ""

\* The next step of goroutine p reads slot n of the object.
ReadsSlot(p, n) ==
    \/ pc[p] = "body" /\ locals[p].op = "Get" /\ FieldNameOfKey(locals[p].key) = n
    \/ pc[p] = "body" /\ locals[p].op = "Iterate"
    \/ pc[p] \in {"check", "deref"} /\ GetterField(p).name = n
    \/ pc[p] = "copy" /\ Fields[locals[p].i].name = n

\* The next step of goroutine q assigns slot n of the object.
WritesSlot(q, n) ==
    \/ pc[q] = "body" /\ locals[q].op \in {"Set", "Remove"}
          /\ FieldNameOfKey(locals[q].key) = n
    \/ pc[q] = "reset"
    \/ pc[q] = "loop" /\ locals[q].i <= Len(locals[q].buf)
          /\ locals[q].buf[locals[q].i].kind = "string"
          /\ DecodeFieldOfKey(locals[q].buf[locals[q].i].v) # 0
          /\ Fields[DecodeFieldOfKey(locals[q].buf[locals[q].i].v)].name = n

\* C11 as stated: every read of a slot by Get, makePairs (MarshalJSON,
\* Iterate) or a typed getter is made holding the lock in shared mode, so no
\* read of a slot happens while another goroutine is in the middle of a Set,
\* Remove or UnmarshalJSON that assigns that slot.
C11_NoReadOverlapsWrite ==
    \A p \in Procs : \A n \in FieldNames :
        ReadsSlot(p, n) =>
            \A q \in Procs \ {p} : ~(mu.writer = q /\ WritesSlot(q, n))

\* Goroutine q is inside the locked part of Set, Remove, SetDecodeCtx or
\* UnmarshalJSON.
Mutating(q) ==
    \/ pc[q] \in {"reset", "loop", "Unlock"}
    \/ pc[q] = "body" /\ locals[q].op \in WriteLocked

\* C12 as stated: Set, Remove, SetDecodeCtx and UnmarshalJSON hold the lock
\* exclusively from their first to their last step, and what Get, MarshalJSON
\* and Iterate (hence Walk and AsMap) see is the object as it is between two
\* mutations: the result of Get and the pair list of Iterate are those of
\* the object as it is while they hold the read lock, and the pair list of
\* MarshalJSON is that of a state the object had, between two mutations, at
\* some time since MarshalJSON was called.
C12_NoHalfMutatedView ==
    /\ \A q \in Procs : Mutating(q) => (mu.writer = q /\ mu.readers = {})
    /\ \A p \in Procs :
          pc[p] = "RUnlock" =>
              /\ mu.writer = NoProc
              /\ locals[p].op = "Get" =>
                    <<locals[p].ret, locals[p].found>> = Get(h, locals[p].key)
              /\ locals[p].op = "Iterate" =>
                    \E order \in Orders(h.privateParams) :
                        locals[p].pairs = makePairs(h, order)
              /\ locals[p].op = "MarshalJSON" =>
                    \E s \in hist.cands[p] : \E order \in Orders(s.privateParams) :
                        locals[p].pairs = makePairs(s, order)

\* The positions of toks before position f that hold the key k of a member.
KeysBefore(toks, f, k) == { j \in 2..(f - 1) : j % 2 = 0 /\ toks[j].v = k }

\* The object after the member at position j of toks alone is decoded into
\* an empty object with the decode context of h.
MemberAlone(toks, j) == decodeStep([NewObject EXCEPT !.dc = h.dc], toks, j).h

\* Goroutine p is at the return of an UnmarshalJSON that has failed.
FailedDecode(p) ==
    pc[p] = "Unlock" /\ locals[p].op = "UnmarshalJSON" /\ locals[p].err # ""

\* C16: at the return of an UnmarshalJSON that fails at position f of the
\* payload, a field whose key is a member before f holds the value decoded
\* from the last such member, any other field is empty whatever it held
\* when the call took the lock, privateParams holds the values decoded from
\* the members before f and else what it held; the return changes nothing
\* of that and releases the lock.
C16_NoRollback ==
    [][ \A p \in Procs :
          (FailedDecode(p) /\ pc'[p] = "done") =>
              LET toks == locals[p].buf
                  f == locals[p].i
                  Last(k) == CHOOSE j \in KeysBefore(toks, f, k) :
                                 \A x \in KeysBefore(toks, f, k) : x <= j
              IN  /\ \A i \in FieldIdx :
                        h.slots[Fields[i].name] =
                            IF KeysBefore(toks, f, decodeCaseKey[i]) = {} THEN NIL
                            ELSE MemberAlone(toks, Last(decodeCaseKey[i])).slots[Fields[i].name]
                  /\ \A i \in FieldIdx :
                        KeysBefore(toks, f, decodeCaseKey[i]) # {} => h.slots[Fields[i].name] # NIL
                  /\ \A k \in ExtKeys :
                        IF KeysBefore(toks, f, k) = {}
                        THEN /\ k \in DOMAIN h.privateParams <=> k \in DOMAIN hist.pre.privateParams
                             /\ k \in DOMAIN h.privateParams
                                    => h.privateParams[k] = hist.pre.privateParams[k]
                        ELSE /\ k \in DOMAIN h.privateParams
                             /\ h.privateParams[k] = MemberAlone(toks, Last(k)).privateParams[k]
                  /\ h' = h
                  /\ mu.writer = p /\ mu'.writer = NoProc ]_vars

\* An UnmarshalJSON has failed after it decoded a field and an extension
\* entry is kept; a field that was set when it took the lock is now empty.
C16_Witness ==
    \E p \in Procs :
        /\ FailedDecode(p)
        /\ locals[p].err = "kty"
        /\ h.slots["n"] # NIL
        /\ hist.pre.slots["keyID"] # NIL /\ h.slots["keyID"] = NIL
        /\ DOMAIN h.privateParams # {}

\* Goroutine p holds the lock, exclusively or shared.
Holds(p) == mu.writer = p \/ p \in mu.readers

\* C20: a goroutine that is in no call holds no lock (every return path has
\* released it), a goroutine that is about to acquire the lock does not hold
\* it, and under fair scheduling every call that has started returns.
C20_EveryCallReturns ==
    /\ [](\A p \in Procs : pc[p] \in {"done", "Lock", "RLock"} => ~Holds(p))
    /\ \A p \in Procs : (pc[p] # "done") ~> (pc[p] = "done")

\* A goroutine waits for the lock while another, which holds it
\* exclusively, is at the return of a call that has failed.
C20_Witness ==
    \E p, q \in Procs :
        /\ pc[p] \in {"Lock", "RLock"}
        /\ mu.writer = q /\ pc[q] = "Unlock" /\ locals[q].err # ""

(***************************************************************************)
(* Properties of Get on fields with hasGet.                                *)
(***************************************************************************)
\* The fields with hasGet whose slot is not empty.
HasGetSet == { i \in FieldIdx : Fields[i].hasGet /\ h.slots[Fields[i].name] # NIL }

\* C15 as stated: Get of a non-empty field with hasGet returns the stored
\* value, as for any other boxed field.
C15_PlainDereferenceAsStated ==
    \A i \in HasGetSet : Get(h, caseKey[i]) = <<h.slots[Fields[i].name], TRUE>>

\* C15 (amended): Get of a non-empty field with hasGet returns Get() of the
\* stored value, which is what the typed getter returns; Get of any other
\* non-empty field returns the stored value.
C15_GetOfHasGet ==
    \A i \in FieldIdx :
        h.slots[Fields[i].name] # NIL =>
            IF Fields[i].hasGet
            THEN /\ Get(h, caseKey[i]) = <<GetDefault(h.slots[Fields[i].name]), TRUE>>
                 /\ Get(h, caseKey[i])[1] = TypedGetter(h, Fields[i])
            ELSE Get(h, caseKey[i]) = <<h.slots[Fields[i].name], TRUE>>

\* The certificate chain is set and Get returns what its Get() returns, not
\* the chain.
C15_Witness ==
    /\ h.slots["x509CertChain"] = Val("*cert.Chain", "MIIB")
    /\ Get(h, "x5c") = <<Val("[]string", "MIIB"), TRUE>>
    /\ HasGetSet # {}

(***************************************************************************)
(* Properties of the pair list.                                            *)
(***************************************************************************)
\* The static fields whose slot is not empty, and the j-th of them in
\* schema order.
NonEmpty == { i \in FieldIdx : h.slots[Fields[i].name] # NIL }

NthNonEmpty(j) == CHOOSE i \in NonEmpty : Cardinality({ x \in NonEmpty : x < i }) = j - 1

\* pairs starts with the kty pair, then holds one pair per non-empty static
\* field in schema order, then one pair per entry of privateParams.
PairsInOrder(pairs) ==
    LET n == Cardinality(NonEmpty) IN
    /\ Len(pairs) = 1 + n + Cardinality(DOMAIN h.privateParams)
    /\ pairs[1] = Pair(KeyTypeKey, KeyTypeValue)
    /\ \A j \in 1..n : pairs[1 + j].Key = caseKey[NthNonEmpty(j)]
    /\ { pairs[j].Key : j \in (n + 2)..Len(pairs) } = DOMAIN h.privateParams

\* The keys of pairs are the keys Get finds.
PairKeysAreGetKeys(pairs) ==
    { pairs[j].Key : j \in 1..Len(pairs) } = { k \in Keys : Get(h, k)[2] }

\* C17 as stated: the pair list is in that order, its keys are the keys Get
\* finds, and the value of each pair is the value Get returns for its key.
C17_PairsMatchGetAsStated ==
    \A order \in Orders(h.privateParams) :
        LET pairs == makePairs(h, order) IN
        /\ PairsInOrder(pairs)
        /\ PairKeysAreGetKeys(pairs)
        /\ \A j \in 1..Len(pairs) : pairs[j].Value = Get(h, pairs[j].Key)[1]

\* C17 (amended): the pair list is in that order, its keys are the keys Get
\* finds, and the value of each pair is the value Get returns for its key,
\* except for a field with hasGet, where the pair holds the stored value and
\* Get returns Get() of it.
C17_PairsMatchGet ==
    \A order \in Orders(h.privateParams) :
        LET pairs == makePairs(h, order) IN
        /\ PairsInOrder(pairs)
        /\ PairKeysAreGetKeys(pairs)
        /\ \A j \in 1..Len(pairs) :
              LET i == FieldOfKey(pairs[j].Key) IN
              IF i # 0 /\ Fields[i].hasGet
              THEN /\ pairs[j].Value = h.slots[Fields[i].name]
                   /\ Get(h, pairs[j].Key)[1] = GetDefault(pairs[j].Value)
              ELSE pairs[j].Value = Get(h, pairs[j].Key)[1]

\* The object holds two static fields, one of them with hasGet, and an
\* extension entry, and the pair of the hasGet field holds the stored value.
C17_Witness ==
    /\ h.slots["keyID"] # NIL /\ h.slots["x509CertChain"] # NIL
    /\ DOMAIN h.privateParams # {}
    /\ \E order \in Orders(h.privateParams) :
          LET pairs == makePairs(h, order) IN
          /\ Len(pairs) >= 4
          /\ pairs[3] = Pair("x5c", Val("*cert.Chain", "MIIB"))
          /\ Get(h, "x5c")[1] # pairs[3].Value

(***************************************************************************)
(* Properties of the default case of the UnmarshalJSON switch.             *)
(***************************************************************************)
\* The token loop started on o at position from arrives at position i:
\* <<whether it does, the object on arrival>>.
RECURSIVE LoopAt(_, _, _, _)
LoopAt(o, toks, from, i) ==
    IF from = i THEN <<TRUE, o>>
    ELSE LET s == decodeStep(o, toks, from) IN
         IF s.next = 0 \/ s.next > i THEN <<FALSE, o>>
         ELSE LoopAt(s.h, toks, s.next, i)

\* tok is a key the UnmarshalJSON switch has no case for.
IsExtensionKey(tok) ==
    tok.kind = "string" /\ tok.v # KeyTypeKey /\ DecodeFieldOfKey(tok.v) = 0

\* Position j of toks holds, after position i, the key of position i again.
KeyAgain(toks, i, j) == j > i /\ (j - i) % 2 = 0 /\ toks[j] = toks[i]

GroupFields == SelectSeq(fieldsFrom(gen.kt.Objects, 1), LAMBDA f : ~f.is_std)

ConstantName(f) == gen.kt.Prefix \o f.exported \o "Key"

\* Two fields of the group that are not standard give the same constant
\* name; they do so with two wire keys.
Collision ==
    \E i, j \in 1..Len(GroupFields) :
        i # j /\ ConstantName(GroupFields[i]) = ConstantName(GroupFields[j])

CollisionOfWireKeys ==
    \E i, j \in 1..Len(GroupFields) :
        /\ ConstantName(GroupFields[i]) = ConstantName(GroupFields[j])
        /\ GroupFields[i].json # GroupFields[j].json

\* C18 as stated: for a group with such a collision generateKeyType stops
\* with an error and writes no const block.
C18_CollisionAbortsAsStated ==
    (gen.pc # "" /\ Collision) => (gen.pc = "constants" /\ gen.constants = <<>>)

\* C18 (amended): generateKeyType never stops on a collision.  The const
\* block holds one constant per constant name of the group, sorted by name,
\* its value the wire key of the first field of that name in the order of
\* the objects; every object of the group is then generated.
C18_FirstDeclarationWins ==
    gen.pc \in {"objects", "written"} =>
        /\ gen.err = ""
        /\ { gen.constants[i].Name : i \in 1..Len(gen.constants) }
              = { ConstantName(GroupFields[i]) : i \in 1..Len(GroupFields) }
        /\ \A i \in 1..(Len(gen.constants) - 1) :
              StrLess(gen.constants[i].Name, gen.constants[i + 1].Name)
        /\ \A i \in 1..Len(gen.constants) :
              LET first == CHOOSE j \in 1..Len(GroupFields) :
                              /\ ConstantName(GroupFields[j]) = gen.constants[i].Name
                              /\ \A k \in 1..(j - 1) :
                                    ConstantName(GroupFields[k]) # gen.constants[i].Name
              IN  gen.constants[i].Value = GroupFields[first].json
        /\ gen.pc = "written" =>
              Len(gen.structs) = Len(gen.kt.Objects)

\* A group whose two objects declare N with two wire keys has been
\* generated, with the wire key of the first object for the constant.
C18_Witness ==
    /\ gen.pc = "written" /\ CollisionOfWireKeys
    /\ Len(gen.kt.Objects) = 2
    /\ \E i \in 1..Len(gen.constants) : gen.constants[i] = Constant("RSANKey", "n")
    /\ \E i \in 1..Len(gen.kt.Objects[2]) : gen.kt.Objects[2][i].json = "modulus"

\* The type text s is stored directly by the rule as the specification puts
\* it: a pointer, a byte sequence or a list.
StoredDirectly(s) == HasPrefix(s, "*") \/ HasPrefix(s, "[]") \/ HasSuffix(s, "List")

\* C19 as stated: in every struct emitted, a field whose type is a pointer,
\* starts with [] or ends in List has that type, and any other field has a
\* pointer to its type.
C19_StorageFromTypeAsStated ==
    \A k \in 1..Len(gen.structs) : \A i \in 1..Len(gen.structs[k]) :
        LET T == gen.kt.Objects[k][i].type IN
        gen.structs[k][i].type = IF StoredDirectly(T) THEN T ELSE "*" \o T

\* C19 (amended): the same, except that KeyOperationList, which ends in
\* List, is stored as a pointer to it.
C19_StorageFromType ==
    \A k \in 1..Len(gen.structs) : \A i \in 1..Len(gen.structs[k]) :
        LET T == gen.kt.Objects[k][i].type IN
        /\ gen.structs[k][i].name = gen.kt.Objects[k][i].name
        /\ gen.structs[k][i].type =
              IF T = "KeyOperationList" THEN "*KeyOperationList"
              ELSE IF StoredDirectly(T) THEN T ELSE "*" \o T

\* A struct has been emitted with a boxed KeyOperationList, a list type
\* stored directly, a byte sequence, a pointer and a boxed string.
C19_Witness ==
    \E k \in 1..Len(gen.structs) :
        { <<"KeyOperationList", "*KeyOperationList">>, <<"TagList", "TagList">>,
          <<"[]byte", "[]byte">>, <<"*cert.Chain", "*cert.Chain">>, <<"string", "*string">> }
            \subseteq { <<gen.kt.Objects[k][i].type, gen.structs[k][i].type>> :
                            i \in 1..Len(gen.structs[k]) }

\* C22: in every object emitted, the case of UnmarshalJSON for a field is
\* on the key constant that Get, Set, Remove and makePairs use for it: the
\* unprefixed <Name>Key for a standard field and <prefix><Name>Key for a
\* field of the family, whatever the name and the type of the field.
C22_DecodeUsesTheKeyOfGet ==
    \A k \in 1..Len(gen.structs) : \A i \in 1..Len(gen.structs[k]) :
        LET f == gen.kt.Objects[k][i] IN
        /\ gen.structs[k][i].key
              = IF f.is_std THEN f.exported \o "Key"
                ELSE gen.kt.Prefix \o f.exported \o "Key"
        /\ gen.structs[k][i].decodeKey = gen.structs[k][i].key

(***************************************************************************)
(* Properties of Iterate.                                                  *)
(***************************************************************************)
\* C13 as stated: once ctx is cancelled the goroutine of Iterate sends no
\* further pair into the channel.
C13_NoSendAfterCancel ==
    [][ (it.active /\ it.done /\ it'.active) => it'.i = it.i ]_vars

\* C21: the producer Iterate starts always terminates and closes the
\* channel, whether or not the consumer reads a pair and whether or not ctx
\* is cancelled: the channel never holds more pairs than the snapshot has,
\* which is its capacity, no lock of the object is held during the
\* iteration, and every iteration started leads to the channel closed.
C21_ProducerTerminates ==
    /\ [](it.active => /\ Len(it.ch) + Len(it.recv) <= Len(it.pairs)
                       /\ mu = Unlocked)
    /\ (it.active ~> it.closed)

\* The producer has sent every pair of a snapshot of two pairs or more and
\* closed the channel, with no pair read and ctx never cancelled.
C21_Witness ==
    /\ it.active /\ it.closed /\ ~it.done
    /\ it.recv = <<>>
    /\ Len(it.pairs) >= 2 /\ Len(it.ch) = Len(it.pairs)
====
